---- MODULE Spec2Model ----
(***************************************************************************)
(* FashionDetector: the search pipeline (SearchService.process_search over *)
(* SearchStateService's file-per-search records), the submission and       *)
(* status endpoints, and the RateLimiter middleware.                       *)
(*                                                                         *)
(* Every `await` of the source is a point where another coroutine may run. *)
(* A body run under `async with self.lock` (one shared lock) is one step.  *)
(***************************************************************************)
EXTENDS Integers, Sequences, FiniteSets, TLC

\* ------------------------------------------------------------------ bounds
MaxStores == 2        \* longest explicitly requested store list
MaxClock == 2         \* the clock stops advancing here
TicksPerMs == 2       \* clock ticks per millisecond (datetime is finer than ms)
MaxRequests == 4      \* requests the limiter sees in one run
MaxInFlight == 2      \* requests dispatch serves at once
MaxTime == 4          \* time.time() stops advancing here
TicksPerSecond == 2   \* ticks of time.time() per second
AnonymousLimit == 1   \* anonymous_limit of the run
AuthenticatedLimit == 2   \* authenticated_limit of the run
WindowSize == 1       \* window_size of the run, in seconds
BlockTime == 1        \* block_time of the run, in seconds
MaxInitialize == 1    \* calls of initialize_search for one identifier in the service runs

\* --------------------------------------------------------------- constants
PROCESSING == "processing"
COMPLETED == "completed"
FAILED == "failed"

\* list(StoreEnum), in declaration order
StoreEnum == <<"zalando", "modivo", "asos">>

StoreNames == {StoreEnum[i] : i \in 1..Len(StoreEnum)}

\* identifiers generate_search_id can return (uuid4: never one already used)
SearchIds == {"s1"}

\* what the analyzer can recognize: nothing, or one attribute
AttributeLists == {<<>>, <<[name |-> "color", value |-> "red", confidence |-> 95]>>}

\* the `stores` form field: absent or empty (None), or any list of StoreEnum
RequestedStores == UNION {[1..n -> StoreNames] : n \in 0..MaxStores}

ContentTypes == {"image/jpeg", "image/png", "application/pdf"}

MiB == 1024 * 1024

\* upload sizes in bytes, around the 10 MB limit
ImageSizes == {15, 10 * MiB, 10 * MiB + 1}

\* a submission: the uploaded file and the `stores` form field
Uploads ==
    [content_type : ContentTypes, size : ImageSizes, readable : BOOLEAN,
     stores : RequestedStores]

VARIABLES
    files,        \* temp/search_states/<id>.json, per search id
    task,         \* the background process_search task, per search id
    response,     \* what create_search answered, per search id
    lastQuery,    \* the last answer of GET /searches/<id>, per search id
    rejected,     \* the last submission refused with 400: its detail
    clock,        \* datetime.now(), in ticks
    faulty,       \* whether file I/O can fail in this run
    uploads,      \* the submissions still to arrive
    validated,    \* what validate_image returned for the upload at hand, if called
    upd,          \* concurrent callers of the state service
    request_records,   \* RateLimiter: the timestamps of each client
    blocked_clients,   \* RateLimiter: the unblock time of each blocked client
    reqs,         \* the requests dispatch is serving
    arrivals,     \* how many requests have arrived
    time          \* time.time(), in ticks

pipeline == <<files, task, response, lastQuery, rejected, clock, faulty, validated, uploads>>

limiter == <<request_records, blocked_clients, reqs, arrivals, time>>

vars == <<pipeline, upd, limiter>>

\* ------------------------------------------------------------ state store
Absent == [kind |-> "absent"]
Corrupt == [kind |-> "corrupt"]
Json(state) == [kind |-> "json", state |-> state]

NotFound == [found |-> FALSE]
Found(state) == [found |-> TRUE, state |-> state]

ReadOutcomes == IF faulty THEN {"ok", "error"} ELSE {"ok"}
WriteOutcomes == IF faulty THEN {"ok", "open_error", "write_error"} ELSE {"ok"}

\* _load_state: None when the file is missing, unreadable or not JSON
LoadState(file, rd) ==
    IF file.kind = "json" /\ rd = "ok" THEN Found(file.state) ELSE NotFound

\* _save_state: the error of open() or json.dump is logged and swallowed;
\* open(path, "w") truncates before json.dump writes
SaveState(file, state, wr) ==
    CASE wr = "ok" -> Json(state)
      [] wr = "open_error" -> file
      [] OTHER -> Corrupt

\* int((end - start).total_seconds() * 1000)
ElapsedMs(start, end) == (end - start) \div TicksPerMs

InitialState(search_id, stores, now) ==
    [search_id |-> search_id,
     status |-> PROCESSING,
     start_time |-> now,
     end_time |-> <<>>,
     elapsed_time_ms |-> 0,
     stores_searched |->
         [i \in 1..Len(stores) |-> [name |-> stores[i], status |-> PROCESSING, time_ms |-> 0]],
     attributes_recognized |-> <<>>,
     result_count |-> 0]

\* mutant: a record that exists is left as it is
InitializeSearch_KeepsExisting(file, search_id, stores, now, wr) ==
    IF file.kind = "json" THEN file
    ELSE SaveState(file, InitialState(search_id, stores, now), wr)

\* initialize_search
InitializeSearch(file, search_id, stores, now, wr) ==
    SaveState(file, InitialState(search_id, stores, now), wr)

\* mutant: a terminal status sets end_time and leaves elapsed_time_ms alone
SetSearchStatus_NoElapsed(state, status, now) ==
    IF status \in {COMPLETED, FAILED}
    THEN [state EXCEPT !.status = status,
                       !.end_time = <<now>>]
    ELSE [state EXCEPT !.status = status]

SetSearchStatus(state, status, now) ==
    IF status \in {COMPLETED, FAILED}
    THEN [state EXCEPT !.status = status,
                       !.end_time = <<now>>,
                       !.elapsed_time_ms = ElapsedMs(state.start_time, now)]
    ELSE [state EXCEPT !.status = status]

\* the first entry named store, 0 when there is none (the loop's break)
FirstEntry(entries, store) ==
    IF \E i \in 1..Len(entries) : entries[i].name = store
    THEN CHOOSE i \in 1..Len(entries) :
             /\ entries[i].name = store
             /\ \A j \in 1..(i - 1) : entries[j].name # store
    ELSE 0

\* mutant: a store that has no entry gets one
SetStoreStatus_AddsUnknown(state, store, status, time_ms) ==
    LET k == FirstEntry(state.stores_searched, store)
    IN IF k = 0
       THEN [state EXCEPT !.stores_searched =
                Append(@, [name |-> store, status |-> status, time_ms |-> time_ms])]
       ELSE [state EXCEPT !.stores_searched[k].status = status,
                          !.stores_searched[k].time_ms = time_ms]

\* mutant: the time of the store search is not written
SetStoreStatus_KeepsTime(state, store, status, time_ms) ==
    LET k == FirstEntry(state.stores_searched, store)
    IN IF k = 0 THEN state
       ELSE [state EXCEPT !.stores_searched[k].status = status]

SetStoreStatus(state, store, status, time_ms) ==
    LET k == FirstEntry(state.stores_searched, store)
    IN IF k = 0 THEN state
       ELSE [state EXCEPT !.stores_searched[k].status = status,
                          !.stores_searched[k].time_ms = time_ms]

SetAttributes(state, attributes) == [state EXCEPT !.attributes_recognized = attributes]

SetResultCount(state, count) == [state EXCEPT !.result_count = count]

\* update_search_status: a record that cannot be loaded is left alone
UpdateSearchStatus(file, status, now, rd, wr) ==
    LET got == LoadState(file, rd)
    IN IF got.found THEN SaveState(file, SetSearchStatus(got.state, status, now), wr) ELSE file

\* update_store_status
UpdateStoreStatus(file, store, status, time_ms, rd, wr) ==
    LET got == LoadState(file, rd)
    IN IF got.found
       THEN SaveState(file, SetStoreStatus(got.state, store, status, time_ms), wr)
       ELSE file

\* update_attributes
UpdateAttributes(file, attributes, rd, wr) ==
    LET got == LoadState(file, rd)
    IN IF got.found THEN SaveState(file, SetAttributes(got.state, attributes), wr) ELSE file

\* update_result_count
UpdateResultCount(file, count, rd, wr) ==
    LET got == LoadState(file, rd)
    IN IF got.found THEN SaveState(file, SetResultCount(got.state, count), wr) ELSE file

\* mutant: result_count is the number of stores searched
StatusResponse_CountsStores(file, rd) ==
    LET got == LoadState(file, rd)
    IN IF got.found
       THEN [found |-> TRUE,
             search_id |-> got.state.search_id,
             status |-> got.state.status,
             elapsed_time_ms |-> got.state.elapsed_time_ms,
             stores_searched |-> got.state.stores_searched,
             attributes_recognized |-> got.state.attributes_recognized,
             result_count |-> Len(got.state.stores_searched)]
       ELSE NotFound

\* get_search_status: the response model built from the loaded record (its
\* timestamp, the time of the query, is left out)
StatusResponse(file, rd) ==
    LET got == LoadState(file, rd)
    IN IF got.found
       THEN [found |-> TRUE,
             search_id |-> got.state.search_id,
             status |-> got.state.status,
             elapsed_time_ms |-> got.state.elapsed_time_ms,
             stores_searched |-> got.state.stores_searched,
             attributes_recognized |-> got.state.attributes_recognized,
             result_count |-> got.state.result_count]
       ELSE NotFound

\* ------------------------------------------------------- submission endpoint
\* mutant: an image of exactly 10 MB is too large (size_in_mb >= 10)
ValidateImage_Below10(content_type, size, readable) ==
    IF content_type \notin {"image/jpeg", "image/png"}
    THEN <<FALSE, "Invalid image format. Only JPEG/PNG accepted.">>
    ELSE IF ~readable
    THEN <<FALSE, "Error processing image file.">>
    ELSE IF size >= 10 * MiB
    THEN <<FALSE, "Image too large. Maximum size is 10 MB.">>
    ELSE <<TRUE, "">>

\* validate_image: (is_valid, error_message)
ValidateImage(content_type, size, readable) ==
    IF content_type \notin {"image/jpeg", "image/png"}
    THEN <<FALSE, "Invalid image format. Only JPEG/PNG accepted.">>
    ELSE IF ~readable
    THEN <<FALSE, "Error processing image file.">>
    ELSE IF size > 10 * MiB
    THEN <<FALSE, "Image too large. Maximum size is 10 MB.">>
    ELSE <<TRUE, "">>

NoCalls ==
    [initialize_search |-> 0, analyze |-> 0, search_store |-> 0,
     save_attributes_batch |-> 0, save_store_search |-> 0, save_search_metrics |-> 0]

\* image_url: "unset" before save_image returns, then "ref" or "None";
\* analysis: "unset" before the analyzer returns, then "ok" or "error"
IdleTask ==
    [pc |-> "idle", stores |-> <<>>, idx |-> 0, total_results |-> 0,
     image_url |-> "unset", analysis |-> "unset",
     attributes |-> <<>>, start_search_time |-> 0, store_time_ms |-> 0,
     raised |-> {}, calls |-> NoCalls]

NoResponse == [status_code |-> 0, status |-> "", estimated_time_seconds |-> 0]

NoQuery == [asked |-> FALSE, after_response |-> FALSE, answer |-> NotFound]

\* mutant: process_search is scheduled before the image is validated
CreateSearch_SchedulesFirst ==
    /\ uploads # <<>>
    /\ uploads' = Tail(uploads)
    /\ LET form == Head(uploads)
           valid == ValidateImage(form.content_type, form.size, form.readable)
       IN \E search_id \in SearchIds :
              /\ response[search_id] = NoResponse
              /\ task' = [task EXCEPT ![search_id] =
                     [IdleTask EXCEPT
                         !.pc = "scheduled",
                         !.stores = IF form.stores = <<>> THEN StoreEnum ELSE form.stores]]
              /\ IF ~valid[1]
                 THEN /\ rejected' = valid[2]
                      /\ UNCHANGED response
                 ELSE /\ response' = [response EXCEPT ![search_id] =
                             [status_code |-> 202, status |-> PROCESSING,
                              estimated_time_seconds |-> 10]]
                      /\ UNCHANGED rejected
              /\ UNCHANGED <<files, lastQuery, clock, faulty, validated, upd, limiter>>

\* mutant: the endpoint initializes the record and saves the image itself
\* before it answers
CreateSearch_SavesImageFirst ==
    /\ uploads # <<>>
    /\ uploads' = Tail(uploads)
    /\ LET form == Head(uploads)
           valid == ValidateImage(form.content_type, form.size, form.readable)
       IN IF ~valid[1]
          THEN /\ rejected' = valid[2]
               /\ UNCHANGED <<files, task, response, lastQuery, clock, faulty, validated, upd, limiter>>
          ELSE \E search_id \in SearchIds, wr \in WriteOutcomes :
                   LET stores == IF form.stores = <<>> THEN StoreEnum ELSE form.stores
                   IN /\ response[search_id] = NoResponse
                      /\ task' = [task EXCEPT ![search_id] =
                             [IdleTask EXCEPT !.pc = "analyze", !.stores = stores,
                                              !.image_url = "ref",
                                              !.calls.initialize_search = 1]]
                      /\ files' = [files EXCEPT ![search_id] =
                             InitializeSearch(@, search_id, stores, clock, wr)]
                      /\ response' = [response EXCEPT ![search_id] =
                             [status_code |-> 202, status |-> PROCESSING,
                              estimated_time_seconds |-> 10]]
                      /\ UNCHANGED <<lastQuery, rejected, clock, faulty, validated, upd, limiter>>

\* POST /searches: validate, generate the id, schedule process_search, answer 202
CreateSearch ==
    /\ uploads # <<>>
    /\ uploads' = Tail(uploads)
    /\ LET form == Head(uploads)
           valid == ValidateImage(form.content_type, form.size, form.readable)
       IN IF ~valid[1]
          THEN /\ rejected' = valid[2]
               /\ UNCHANGED <<files, task, response, lastQuery, clock, faulty, validated, upd, limiter>>
          ELSE \E search_id \in SearchIds :
                   /\ response[search_id] = NoResponse
                   /\ task' = [task EXCEPT ![search_id] =
                          [IdleTask EXCEPT
                              !.pc = "scheduled",
                              !.stores = IF form.stores = <<>> THEN StoreEnum ELSE form.stores]]
                   /\ response' = [response EXCEPT ![search_id] =
                          [status_code |-> 202, status |-> PROCESSING,
                           estimated_time_seconds |-> 10]]
                   /\ UNCHANGED <<files, lastQuery, rejected, clock, faulty, validated, upd, limiter>>

\* mutant: a query for an unknown identifier creates its record
GetSearchStatus_Creates(search_id) ==
    \E rd \in ReadOutcomes, wr \in WriteOutcomes :
        /\ lastQuery' = [lastQuery EXCEPT ![search_id] =
               [asked |-> TRUE,
                after_response |-> response[search_id] # NoResponse,
                answer |-> StatusResponse(files[search_id], rd)]]
        /\ files' = [files EXCEPT ![search_id] =
               IF @ = Absent THEN InitializeSearch(@, search_id, <<>>, clock, wr) ELSE @]
        /\ UNCHANGED <<task, response, rejected, clock, faulty, validated, uploads, upd, limiter>>

\* GET /searches/<id>: 404 when the state service returns None
GetSearchStatus(search_id) ==
    \E rd \in ReadOutcomes :
        /\ lastQuery' = [lastQuery EXCEPT ![search_id] =
               [asked |-> TRUE,
                after_response |-> response[search_id] # NoResponse,
                answer |-> StatusResponse(files[search_id], rd)]]
        /\ UNCHANGED <<files, task, response, rejected, clock, faulty, validated, uploads, upd, limiter>>

\* time passes
Tick ==
    /\ clock < MaxClock
    /\ clock' = clock + 1
    /\ UNCHANGED <<files, task, response, lastQuery, rejected, faulty, validated, uploads, upd, limiter>>

\* ------------------------------------------------------------ process_search
\* _simulate_search_results: the number of products per store
ProductCount(store) ==
    CASE store = "zalando" -> 3
      [] store = "modivo" -> 2
      [] store = "asos" -> 4
      [] OTHER -> 1

\* mutant: every search writes the same file
Step_OneFile(s, newTask, newFile) ==
    /\ task' = [task EXCEPT ![s] = newTask]
    /\ files' = [o \in DOMAIN files |-> newFile]
    /\ UNCHANGED <<response, lastQuery, rejected, clock, faulty, validated, uploads, upd, limiter>>

\* one step of the task of search s: its new locals and the new file
Step(s, newTask, newFile) ==
    /\ task' = [task EXCEPT ![s] = newTask]
    /\ files' = [files EXCEPT ![s] = newFile]
    /\ UNCHANGED <<response, lastQuery, rejected, clock, faulty, validated, uploads, upd, limiter>>

Called(t, name) == [t EXCEPT !.calls[name] = @ + 1]

\* mutant: the loop leaves out the last requested store
LoopNext_SkipsLast(t) ==
    IF t.idx + 1 < Len(t.stores)
    THEN [t EXCEPT !.idx = @ + 1, !.pc = "store_processing"]
    ELSE [t EXCEPT !.idx = @ + 1, !.pc = "update_result_count"]

\* the `for store in stores` loop: the next store, or the code after the loop
LoopNext(t) ==
    IF t.idx < Len(t.stores)
    THEN [t EXCEPT !.idx = @ + 1, !.pc = "store_processing"]
    ELSE [t EXCEPT !.idx = @ + 1, !.pc = "update_result_count"]

\* initialize_search(search_id, store_names)
PS_Initialize(s) ==
    /\ task[s].pc = "scheduled"
    /\ \E wr \in WriteOutcomes :
           Step(s, Called([task[s] EXCEPT !.pc = "save_image"], "initialize_search"),
                InitializeSearch(files[s], s, task[s].stores, clock, wr))

\* save_image: a reference, or None on any error
PS_SaveImage(s) ==
    /\ task[s].pc = "save_image"
    /\ \E saved \in BOOLEAN :
           Step(s, [task[s] EXCEPT !.pc = IF saved THEN "analyze" ELSE "image_failed",
                                   !.image_url = IF saved THEN "ref" ELSE "None"],
                files[s])

\* mutant: a failed image save marks every store entry failed as well
PS_ImageFailed_FailsStores(s) ==
    /\ task[s].pc = "image_failed"
    /\ \E rd \in ReadOutcomes, wr \in WriteOutcomes :
           LET got == LoadState(files[s], rd)
           IN Step(s, [task[s] EXCEPT !.pc = "done"],
                   IF got.found
                   THEN SaveState(files[s],
                            SetSearchStatus(
                                [got.state EXCEPT !.stores_searched =
                                    [i \in 1..Len(@) |-> [@[i] EXCEPT !.status = FAILED]]],
                                FAILED, clock),
                            wr)
                   ELSE files[s])

\* mutant: the failed image save is logged and the pipeline goes on
PS_ImageFailed_GoesOn(s) ==
    /\ task[s].pc = "image_failed"
    /\ \E rd \in ReadOutcomes, wr \in WriteOutcomes :
           Step(s, [task[s] EXCEPT !.pc = "analyze"],
                UpdateSearchStatus(files[s], FAILED, clock, rd, wr))

\* no image: update_search_status(FAILED), return
PS_ImageFailed(s) ==
    /\ task[s].pc = "image_failed"
    /\ \E rd \in ReadOutcomes, wr \in WriteOutcomes :
           Step(s, [task[s] EXCEPT !.pc = "done"],
                UpdateSearchStatus(files[s], FAILED, clock, rd, wr))

\* what analyze_clothing_image returns: the parsed attributes, or [] when
\* there is no API key or anything inside its try block raises
AnalysisOutcomes ==
    [analysis : {"ok"}, attributes : AttributeLists]
    \cup [analysis : {"error"}, attributes : {<<>>}]

\* mutant: an error inside the analyzer reaches the handler of process_search
PS_Analyze_Propagates(s) ==
    /\ task[s].pc = "analyze"
    /\ \E out \in AnalysisOutcomes, rd \in ReadOutcomes, wr \in WriteOutcomes :
           IF out.analysis = "error"
           THEN Step(s, Called([task[s] EXCEPT !.pc = "done", !.analysis = "error"],
                               "analyze"),
                     UpdateSearchStatus(files[s], FAILED, clock, rd, wr))
           ELSE Step(s, Called([task[s] EXCEPT !.pc = "update_attributes",
                                               !.analysis = out.analysis,
                                               !.attributes = out.attributes], "analyze"),
                     files[s])

\* analyze_clothing_image: the attributes, [] when the call fails
PS_Analyze(s) ==
    /\ task[s].pc = "analyze"
    /\ \E out \in AnalysisOutcomes :
           Step(s, Called([task[s] EXCEPT !.pc = "update_attributes",
                                          !.analysis = out.analysis,
                                          !.attributes = out.attributes], "analyze"),
                files[s])

\* mutant: an empty attribute list ends the search as failed
PS_UpdateAttributes_EmptyFails(s) ==
    /\ task[s].pc = "update_attributes"
    /\ \E rd \in ReadOutcomes, wr \in WriteOutcomes :
           IF task[s].attributes = <<>>
           THEN Step(s, [task[s] EXCEPT !.pc = "done"],
                     UpdateSearchStatus(files[s], FAILED, clock, rd, wr))
           ELSE Step(s, [task[s] EXCEPT !.pc = "save_attributes"],
                     UpdateAttributes(files[s], task[s].attributes, rd, wr))

PS_UpdateAttributes(s) ==
    /\ task[s].pc = "update_attributes"
    /\ \E rd \in ReadOutcomes, wr \in WriteOutcomes :
           Step(s, [task[s] EXCEPT !.pc = "save_attributes"],
                UpdateAttributes(files[s], task[s].attributes, rd, wr))

\* save_attributes_batch (its result is not read), then the loop starts
PS_SaveAttributes(s) ==
    /\ task[s].pc = "save_attributes"
    /\ Step(s, LoopNext(Called([task[s] EXCEPT !.start_search_time = clock],
                                "save_attributes_batch")),
            files[s])

PS_StoreProcessing(s) ==
    /\ task[s].pc = "store_processing"
    /\ \E rd \in ReadOutcomes, wr \in WriteOutcomes :
           Step(s, [task[s] EXCEPT !.pc = "search_call"],
                UpdateStoreStatus(files[s], task[s].stores[task[s].idx], PROCESSING, 0, rd, wr))

\* search_store is called and awaited
PS_SearchCall(s) ==
    /\ task[s].pc = "search_call"
    /\ Step(s, Called([task[s] EXCEPT !.pc = "search_wait"], "search_store"), files[s])

\* search_store returns its products
PS_SearchReturn(s) ==
    /\ task[s].pc = "search_wait"
    /\ Step(s, [task[s] EXCEPT
                   !.pc = "store_completed",
                   !.total_results = @ + ProductCount(task[s].stores[task[s].idx]),
                   !.store_time_ms = ElapsedMs(task[s].start_search_time, clock)],
            files[s])

\* search_store raises: the loop's except clause runs
PS_SearchRaise(s) ==
    /\ task[s].pc = "search_wait"
    /\ Step(s, [task[s] EXCEPT !.pc = "store_failed", !.raised = @ \cup {task[s].idx}],
            files[s])

PS_StoreCompleted(s) ==
    /\ task[s].pc = "store_completed"
    /\ \E rd \in ReadOutcomes, wr \in WriteOutcomes :
           Step(s, [task[s] EXCEPT !.pc = "store_metrics"],
                UpdateStoreStatus(files[s], task[s].stores[task[s].idx], COMPLETED,
                                  task[s].store_time_ms, rd, wr))

\* save_store_search(store, True, time)
PS_StoreMetrics(s) ==
    /\ task[s].pc = "store_metrics"
    /\ Step(s, LoopNext(Called(task[s], "save_store_search")), files[s])

\* mutant: a store's failure aborts the search
PS_StoreFailed_Aborts(s) ==
    /\ task[s].pc = "store_failed"
    /\ \E rd \in ReadOutcomes, wr \in WriteOutcomes :
           Step(s, [task[s] EXCEPT !.pc = "done"],
                UpdateSearchStatus(files[s], FAILED, clock, rd, wr))

PS_StoreFailed(s) ==
    /\ task[s].pc = "store_failed"
    /\ \E rd \in ReadOutcomes, wr \in WriteOutcomes :
           Step(s, [task[s] EXCEPT !.pc = "store_failed_metrics"],
                UpdateStoreStatus(files[s], task[s].stores[task[s].idx], FAILED, 0, rd, wr))

\* save_store_search(store, False, None)
PS_StoreFailedMetrics(s) ==
    /\ task[s].pc = "store_failed_metrics"
    /\ Step(s, LoopNext(Called(task[s], "save_store_search")), files[s])

PS_UpdateResultCount(s) ==
    /\ task[s].pc = "update_result_count"
    /\ \E rd \in ReadOutcomes, wr \in WriteOutcomes :
           Step(s, [task[s] EXCEPT !.pc = "mark_completed"],
                UpdateResultCount(files[s], task[s].total_results, rd, wr))

PS_MarkCompleted(s) ==
    /\ task[s].pc = "mark_completed"
    /\ \E rd \in ReadOutcomes, wr \in WriteOutcomes :
           Step(s, [task[s] EXCEPT !.pc = "save_metrics"],
                UpdateSearchStatus(files[s], COMPLETED, clock, rd, wr))

\* mutant: save_search_metrics raises, and the handler of process_search marks
\* the search failed
PS_SaveMetrics_Raises(s) ==
    /\ task[s].pc = "save_metrics"
    /\ \E rd \in ReadOutcomes, wr \in WriteOutcomes :
           Step(s, Called([task[s] EXCEPT !.pc = "done"], "save_search_metrics"),
                UpdateSearchStatus(files[s], FAILED, clock, rd, wr))

\* save_search_metrics: True or False, it raises nothing
PS_SaveMetrics(s) ==
    /\ task[s].pc = "save_metrics"
    /\ Step(s, Called([task[s] EXCEPT !.pc = "done"], "save_search_metrics"), files[s])

\* the steps of process_search that do not wait for the store searcher
Orchestrate(s) ==
    \/ PS_Initialize(s)
    \/ PS_SaveImage(s)
    \/ PS_ImageFailed(s)
    \/ PS_Analyze(s)
    \/ PS_UpdateAttributes(s)
    \/ PS_SaveAttributes(s)
    \/ PS_StoreProcessing(s)
    \/ PS_SearchCall(s)
    \/ PS_StoreCompleted(s)
    \/ PS_StoreMetrics(s)
    \/ PS_StoreFailed(s)
    \/ PS_StoreFailedMetrics(s)
    \/ PS_UpdateResultCount(s)
    \/ PS_MarkCompleted(s)
    \/ PS_SaveMetrics(s)

\* --------------------------------------- the state service, called concurrently
Updaters == {"u1", "u2"}

\* the record the updaters work on
UpdatedSearch == "s1"

IdleUpdater == [pc |-> "idle", op |-> "", store |-> "", status |-> "", time_ms |-> 0,
                attributes |-> <<>>, count |-> 0, state |-> <<>>]

\* the calls of the four update methods
UpdateCalls ==
    [op : {"update_search_status"}, store : {""}, status : {COMPLETED, FAILED},
     time_ms : {0}, attributes : {<<>>}, count : {0}]
    \cup [op : {"update_store_status"}, store : StoreNames,
          status : {COMPLETED, FAILED}, time_ms : {0, 1}, attributes : {<<>>}, count : {0}]
    \cup [op : {"update_attributes"}, store : {""}, status : {""}, time_ms : {0},
          attributes : AttributeLists \ {<<>>}, count : {0}]
    \cup [op : {"update_result_count"}, store : {""}, status : {""}, time_ms : {0},
          attributes : {<<>>}, count : {1, 2}]

\* the change a call makes to the record it loaded
Changed(call, state, now) ==
    CASE call.op = "update_search_status" -> SetSearchStatus(state, call.status, now)
      [] call.op = "update_store_status" ->
             SetStoreStatus(state, call.store, call.status, call.time_ms)
      [] call.op = "update_attributes" -> SetAttributes(state, call.attributes)
      [] OTHER -> SetResultCount(state, call.count)

\* an update method is called
US_Call(u) ==
    /\ upd[u].pc = "idle"
    /\ \E call \in UpdateCalls :
           upd' = [upd EXCEPT ![u] =
               [pc |-> "load", op |-> call.op, store |-> call.store, status |-> call.status,
                time_ms |-> call.time_ms, attributes |-> call.attributes,
                count |-> call.count, state |-> <<>>]]
    /\ UNCHANGED <<pipeline, limiter>>

\* mutant: an update that finds no record starts from an empty initial record
US_Load_Creates(u) ==
    /\ upd[u].pc = "load"
    /\ \E rd \in ReadOutcomes :
           LET got == LoadState(files[UpdatedSearch], rd)
               base == IF got.found THEN got.state
                       ELSE InitialState(UpdatedSearch, <<>>, clock)
           IN upd' = [upd EXCEPT ![u] =
                  [upd[u] EXCEPT !.pc = "save",
                                 !.state = <<Changed(upd[u], base, clock)>>]]
    /\ UNCHANGED <<pipeline, limiter>>

\* `state = await self._load_state(search_id)`, then the change made in memory
US_Load(u) ==
    /\ upd[u].pc = "load"
    /\ \E rd \in ReadOutcomes :
           LET got == LoadState(files[UpdatedSearch], rd)
           IN upd' = [upd EXCEPT ![u] =
                  IF got.found
                  THEN [upd[u] EXCEPT !.pc = "save",
                                      !.state = <<Changed(upd[u], got.state, clock)>>]
                  ELSE [upd[u] EXCEPT !.pc = "done"]]
    /\ UNCHANGED <<pipeline, limiter>>

\* `await self._save_state(search_id, state)`: its lock is a new asyncio.Lock()
US_Save(u) ==
    /\ upd[u].pc = "save"
    /\ \E wr \in WriteOutcomes :
           files' = [files EXCEPT ![UpdatedSearch] = SaveState(@, upd[u].state[1], wr)]
    /\ upd' = [upd EXCEPT ![u].pc = "done"]
    /\ UNCHANGED <<task, response, lastQuery, rejected, clock, faulty, validated, uploads, limiter>>

\* ------------------------------------------------------------------ RateLimiter
\* X-Forwarded-For: absent, or its addresses in order
ForwardedFor == {<<>>, <<"1.1.1.1", "9.9.9.9">>}

\* request.client.host, "" when request.client is None
Hosts == {"1.1.1.1", ""}

\* Authorization: absent, or <<scheme, credentials>>
Authorizations == {<<>>, <<"Bearer", "token">>, <<"Basic", "dXNlcg==">>}

\* request.url.path, as its segments: "/", "/api/searches/", "/api/searches/s1"
Paths == {<<>>, <<"api", "searches">>, <<"api", "searches", "s1">>}

\* _get_client_ip
GetClientIp(forwarded_for, host) ==
    IF forwarded_for # <<>> THEN forwarded_for[1]
    ELSE IF host # "" THEN host ELSE "unknown"

\* _is_authenticated: the header starts with "Bearer "
IsAuthenticated(authorization) ==
    authorization # <<>> /\ authorization[1] = "Bearer"

\* _should_rate_limit: path.startswith("/api/searches")
ShouldRateLimit(path) ==
    Len(path) >= 2 /\ path[1] = "api" /\ path[2] = "searches"

Clients == {GetClientIp(f, h) : f \in ForwardedFor, h \in Hosts}

window_size == WindowSize * TicksPerSecond

block_time == BlockTime * TicksPerSecond

\* int(seconds): a difference of two times, in whole seconds
WholeSeconds(ticks) == ticks \div TicksPerSecond

\* mutant: a timestamp at window_start is kept (timestamp >= window_start)
Pruned_Inclusive(timestamps, window_start) ==
    SelectSeq(timestamps, LAMBDA timestamp : timestamp >= window_start)

\* the timestamps newer than window_start, in order
Pruned(timestamps, window_start) ==
    SelectSeq(timestamps, LAMBDA timestamp : timestamp > window_start)

\* the requests dispatch is serving, or has served last, one per slot
Slots == 1..MaxInFlight

FreeSlot == [client |-> "", authenticated |-> FALSE, path |-> <<>>, limited |-> FALSE,
             pc |-> "free", retry_after |-> 0]

Served(r) == reqs[r].pc \in {"free", "forwarded", "blocked", "exceeded"}

SetReq(r, pc, retry_after) ==
    reqs' = [reqs EXCEPT ![r] = [@ EXCEPT !.pc = pc, !.retry_after = retry_after]]

\* a request reaches dispatch
RL_Arrive(r) ==
    /\ arrivals < MaxRequests
    /\ Served(r)
    /\ arrivals' = arrivals + 1
    /\ \E forwarded_for \in ForwardedFor, host \in Hosts,
          authorization \in Authorizations, path \in Paths :
           reqs' = [reqs EXCEPT ![r] =
               [client |-> GetClientIp(forwarded_for, host),
                authenticated |-> IsAuthenticated(authorization),
                path |-> path,
                limited |-> ShouldRateLimit(path),
                pc |-> "start", retry_after |-> 0]]
    /\ UNCHANGED <<pipeline, upd, request_records, blocked_clients, time>>

\* mutant: a request to a path that is not limited is recorded all the same
RL_PassThrough_Records(r) ==
    /\ reqs[r].pc = "start"
    /\ ~reqs[r].limited
    /\ request_records' = [request_records EXCEPT ![reqs[r].client] = Append(@, time)]
    /\ SetReq(r, "forwarded", 0)
    /\ UNCHANGED <<pipeline, upd, blocked_clients, time, arrivals>>

\* a path that is not limited: call_next
RL_PassThrough(r) ==
    /\ reqs[r].pc = "start"
    /\ ~reqs[r].limited
    /\ SetReq(r, "forwarded", 0)
    /\ UNCHANGED <<pipeline, upd, request_records, blocked_clients, time, arrivals>>

\* mutant: a request denied for a block starts the block anew
RL_IsClientBlocked_Refreshes(r) ==
    /\ reqs[r].pc = "start"
    /\ reqs[r].limited
    /\ LET client_ip == reqs[r].client
       IN IF client_ip \in DOMAIN blocked_clients
          THEN IF time >= blocked_clients[client_ip]
               THEN /\ blocked_clients' =
                          [c \in DOMAIN blocked_clients \ {client_ip} |-> blocked_clients[c]]
                    /\ SetReq(r, "check", 0)
               ELSE /\ SetReq(r, "blocked", WholeSeconds(blocked_clients[client_ip] - time))
                    /\ blocked_clients' =
                          [blocked_clients EXCEPT ![client_ip] = time + block_time]
          ELSE /\ SetReq(r, "check", 0)
               /\ UNCHANGED blocked_clients
    /\ UNCHANGED <<pipeline, upd, request_records, time, arrivals>>

\* mutant: the block ends only after its unblock time (now > unblock_time)
RL_IsClientBlocked_Late(r) ==
    /\ reqs[r].pc = "start"
    /\ reqs[r].limited
    /\ LET client_ip == reqs[r].client
       IN IF client_ip \in DOMAIN blocked_clients
          THEN IF time > blocked_clients[client_ip]
               THEN /\ blocked_clients' =
                          [c \in DOMAIN blocked_clients \ {client_ip} |-> blocked_clients[c]]
                    /\ SetReq(r, "check", 0)
               ELSE /\ SetReq(r, "blocked", WholeSeconds(blocked_clients[client_ip] - time))
                    /\ UNCHANGED blocked_clients
          ELSE /\ SetReq(r, "check", 0)
               /\ UNCHANGED blocked_clients
    /\ UNCHANGED <<pipeline, upd, request_records, time, arrivals>>

\* _is_client_blocked, and the 429 of dispatch when it says blocked
RL_IsClientBlocked(r) ==
    /\ reqs[r].pc = "start"
    /\ reqs[r].limited
    /\ LET client_ip == reqs[r].client
       IN IF client_ip \in DOMAIN blocked_clients
          THEN IF time >= blocked_clients[client_ip]
               THEN /\ blocked_clients' =
                          [c \in DOMAIN blocked_clients \ {client_ip} |-> blocked_clients[c]]
                    /\ SetReq(r, "check", 0)
               ELSE /\ SetReq(r, "blocked", WholeSeconds(blocked_clients[client_ip] - time))
                    /\ UNCHANGED blocked_clients
          ELSE /\ SetReq(r, "check", 0)
               /\ UNCHANGED blocked_clients
    /\ UNCHANGED <<pipeline, upd, request_records, time, arrivals>>

\* mutant: the request is denied only above the limit (request_count > limit)
RL_CheckRateLimit_OffByOne(r) ==
    /\ reqs[r].pc = "check"
    /\ LET client_ip == reqs[r].client
           kept == Pruned(request_records[client_ip], time - window_size)
           limit == IF reqs[r].authenticated THEN AuthenticatedLimit ELSE AnonymousLimit
       IN /\ request_records' = [request_records EXCEPT ![client_ip] = kept]
          /\ IF Len(kept) > limit
             THEN /\ blocked_clients' =
                        [c \in DOMAIN blocked_clients \cup {client_ip} |->
                            IF c = client_ip THEN time + block_time ELSE blocked_clients[c]]
                  /\ SetReq(r, "exceeded", BlockTime)
             ELSE /\ SetReq(r, "record", 0)
                  /\ UNCHANGED blocked_clients
    /\ UNCHANGED <<pipeline, upd, time, arrivals>>

\* _check_rate_limit, and the 429 of dispatch when the limit is exceeded
RL_CheckRateLimit(r) ==
    /\ reqs[r].pc = "check"
    /\ LET client_ip == reqs[r].client
           kept == Pruned(request_records[client_ip], time - window_size)
           limit == IF reqs[r].authenticated THEN AuthenticatedLimit ELSE AnonymousLimit
       IN /\ request_records' = [request_records EXCEPT ![client_ip] = kept]
          /\ IF Len(kept) >= limit
             THEN /\ blocked_clients' =
                        [c \in DOMAIN blocked_clients \cup {client_ip} |->
                            IF c = client_ip THEN time + block_time ELSE blocked_clients[c]]
                  /\ SetReq(r, "exceeded", BlockTime)
             ELSE /\ SetReq(r, "record", 0)
                  /\ UNCHANGED blocked_clients
    /\ UNCHANGED <<pipeline, upd, time, arrivals>>

\* _record_request, then call_next
RL_RecordRequest(r) ==
    /\ reqs[r].pc = "record"
    /\ request_records' = [request_records EXCEPT ![reqs[r].client] = Append(@, time)]
    /\ SetReq(r, "forwarded", 0)
    /\ UNCHANGED <<pipeline, upd, blocked_clients, time, arrivals>>

RL_Tick ==
    /\ time < MaxTime
    /\ time' = time + 1
    /\ UNCHANGED <<pipeline, upd, request_records, blocked_clients, reqs, arrivals>>

\* ------------------------------------------------------------ specifications
NoFiles == files = [s \in SearchIds |-> Absent]

InitCommon ==
    /\ task = [s \in SearchIds |-> IdleTask]
    /\ response = [s \in SearchIds |-> NoResponse]
    /\ lastQuery = [s \in SearchIds |-> NoQuery]
    /\ rejected = ""
    /\ validated = <<>>
    /\ clock = 0

InitLimiter ==
    /\ request_records = [c \in Clients |-> <<>>]
    /\ blocked_clients = <<>>
    /\ reqs = [r \in Slots |-> FreeSlot]
    /\ arrivals = 0
    /\ time = 0

NoUpdaters == upd = [u \in Updaters |-> IdleUpdater]

InitUploads == \E form \in Uploads : uploads = <<form>>

Init == NoFiles /\ InitCommon /\ InitLimiter /\ NoUpdaters /\ InitUploads /\ faulty = FALSE

Next ==
    \/ CreateSearch
    \/ Tick
    \/ \E s \in SearchIds :
        \/ GetSearchStatus(s)
        \/ Orchestrate(s)
        \/ PS_SearchReturn(s)
        \/ PS_SearchRaise(s)

\* the pipeline over a state directory that works
Spec == Init /\ [][Next]_vars

InitIO == NoFiles /\ InitCommon /\ InitLimiter /\ NoUpdaters /\ InitUploads /\ faulty = TRUE

\* the pipeline over a state directory whose reads and writes can fail
SpecIO == InitIO /\ [][Next]_vars

\* the event loop runs every step of process_search that is ready; nothing
\* bounds the time the store searcher takes (no timeout)
SpecFair ==
    /\ Init
    /\ [][Next]_vars
    /\ WF_vars(CreateSearch)
    /\ \A s \in SearchIds : WF_vars(Orchestrate(s))

\* the state service over the record of a search of two stores, its update
\* methods called by two coroutines at once
InitState ==
    /\ InitCommon
    /\ InitLimiter
    /\ NoUpdaters
    /\ uploads = <<>>
    /\ faulty = FALSE
    /\ \E stores \in {<<"zalando", "asos">>, StoreEnum} :
           files = [s \in SearchIds |-> Json(InitialState(s, stores, 0))]

NextState ==
    \/ Tick
    \/ \E u \in Updaters :
        \/ US_Call(u)
        \/ US_Load(u)
        \/ US_Save(u)

SpecState == InitState /\ [][NextState]_vars

\* the store lists initialize_search is called with in the service runs
InitializedStores == {<<"asos">>, <<"zalando", "asos">>, StoreEnum}

\* initialize_search called directly, whether or not the record exists
SS_InitializeSearch ==
    \E stores \in InitializedStores, wr \in WriteOutcomes :
        /\ task[UpdatedSearch].calls.initialize_search < MaxInitialize
        /\ files' = [files EXCEPT ![UpdatedSearch] =
               InitializeSearch(@, UpdatedSearch, stores, clock, wr)]
        /\ task' = [task EXCEPT ![UpdatedSearch] =
               Called([@ EXCEPT !.stores = stores], "initialize_search")]
        /\ UNCHANGED <<response, lastQuery, rejected, clock, faulty, validated, uploads,
                       upd, limiter>>

\* the state service on its own: the identifier has a record or has none
InitService ==
    /\ InitCommon
    /\ InitLimiter
    /\ NoUpdaters
    /\ uploads = <<>>
    /\ faulty = FALSE
    /\ \/ NoFiles
       \/ files = [s \in SearchIds |-> Json(InitialState(s, StoreEnum, 0))]

NextService ==
    \/ Tick
    \/ SS_InitializeSearch
    \/ GetSearchStatus(UpdatedSearch)
    \/ \E u \in Updaters :
        \/ US_Call(u)
        \/ US_Load(u)
        \/ US_Save(u)

SpecService == InitService /\ [][NextService]_vars

\* two searches that create_search has scheduled run at once; uuid4 gives
\* them different identifiers
TwoSearches == {"s1", "s2"}

\* the store lists of the two searches
ScheduledStores == {<<"asos">>, <<"zalando", "asos">>}

InitTwo ==
    /\ task \in [TwoSearches ->
                    {[IdleTask EXCEPT !.pc = "scheduled", !.stores = stores] :
                        stores \in ScheduledStores}]
    /\ files = [s \in TwoSearches |-> Absent]
    /\ response = [s \in TwoSearches |->
                       [status_code |-> 202, status |-> PROCESSING,
                        estimated_time_seconds |-> 10]]
    /\ lastQuery = [s \in TwoSearches |-> NoQuery]
    /\ rejected = ""
    /\ validated = <<>>
    /\ clock = 0
    /\ InitLimiter
    /\ NoUpdaters
    /\ uploads = <<>>
    /\ faulty = FALSE

NextTwo ==
    \/ Tick
    \/ \E s \in TwoSearches :
        \/ Orchestrate(s)
        \/ PS_SearchReturn(s)
        \/ PS_SearchRaise(s)

SpecTwo == InitTwo /\ [][NextTwo]_vars

\* validate_image on its own, called once on an upload
VI_ValidateImage ==
    /\ uploads # <<>>
    /\ validated = <<>>
    /\ LET image == Head(uploads)
       IN validated' = <<ValidateImage(image.content_type, image.size, image.readable)>>
    /\ UNCHANGED <<files, task, response, lastQuery, rejected, clock, faulty, uploads,
                   upd, limiter>>

InitValidate == Init

NextValidate == VI_ValidateImage

SpecValidate == InitValidate /\ [][NextValidate]_vars

\* the limiter in front of the application, its requests served concurrently
InitRL == NoFiles /\ InitCommon /\ InitLimiter /\ NoUpdaters /\ uploads = <<>> /\ faulty = FALSE

NextRL ==
    \/ RL_Tick
    \/ \E r \in Slots :
        \/ RL_Arrive(r)
        \/ RL_PassThrough(r)
        \/ RL_IsClientBlocked(r)
        \/ RL_CheckRateLimit(r)
        \/ RL_RecordRequest(r)

SpecRL == InitRL /\ [][NextRL]_vars

\* ------------------------------------------------------------------ claims
Persisted(s) == files[s].kind = "json"

Terminal(s) == Persisted(s) /\ files[s].state.status \in {COMPLETED, FAILED}

\* the sub-status update_store_status keeps for a store name
SubStatus(s, store) ==
    files[s].state.stores_searched[FirstEntry(files[s].state.stores_searched, store)]

\* the last call of the store searcher for the store of call i
LastCall(t, i) ==
    CHOOSE j \in 1..Len(t.stores) :
        /\ t.stores[j] = t.stores[i]
        /\ \A k \in (j + 1)..Len(t.stores) : t.stores[k] # t.stores[i]

\* the products the store searcher returned in calls 1..n for the stores in names
RECURSIVE Returned(_, _, _)
Returned(t, names, n) ==
    IF n = 0 THEN 0
    ELSE Returned(t, names, n - 1)
         + (IF t.stores[n] \in names /\ n \notin t.raised
            THEN ProductCount(t.stores[n]) ELSE 0)

\* the requested stores with an entry in the given sub-status
StoresIn(s, status) ==
    {files[s].state.stores_searched[i].name :
        i \in {j \in 1..Len(files[s].state.stores_searched) :
                   files[s].state.stores_searched[j].status = status}}

\* C1: once process_search has returned, the persisted record is completed or
\* failed, whatever the collaborators and the state saves did.
C1_TerminalOnceTaskReturned ==
    \A s \in SearchIds : task[s].pc = "done" => Terminal(s)

\* C4: a completed record's result_count is the sum of the products the store
\* searcher returned for the stores whose sub-status is completed; a store whose
\* sub-status is failed contributes nothing.
C4_ResultCountIsSumOfCompletedStores ==
    \A s \in SearchIds :
        Persisted(s) /\ files[s].state.status = COMPLETED =>
            files[s].state.result_count =
                Returned(task[s], StoresIn(s, COMPLETED) \ StoresIn(s, FAILED),
                         Len(task[s].stores))

\* C5: when the store searcher raises for a store, that store's sub-status
\* becomes failed; the searcher is still called for every requested store, each
\* store's final sub-status is decided by its own (last) call alone, and the
\* search ends completed.
C5_StoreFailureIsIsolated ==
    \A s \in SearchIds :
        LET t == task[s]
        IN /\ t.pc = "store_failed_metrics" =>
                  /\ Persisted(s)
                  /\ SubStatus(s, t.stores[t.idx]).status = FAILED
                  /\ SubStatus(s, t.stores[t.idx]).time_ms = 0
           /\ t.raised # {} /\ t.pc = "done" =>
                  /\ Persisted(s)
                  /\ files[s].state.status = COMPLETED
                  /\ t.calls.search_store = Len(t.stores)
                  /\ \A i \in 1..Len(t.stores) :
                         SubStatus(s, t.stores[i]).status =
                             IF LastCall(t, i) \in t.raised THEN FAILED ELSE COMPLETED

\* C5 witness: a finished search of two different stores, the searcher raised
\* for the first and returned for the second.
C5_Witness ==
    \E s \in SearchIds :
        /\ task[s].pc = "done"
        /\ Len(task[s].stores) >= 2
        /\ task[s].stores[1] # task[s].stores[2]
        /\ task[s].raised = {1}
        /\ Persisted(s)
        /\ files[s].state.status = COMPLETED
        /\ files[s].state.stores_searched[1].status = FAILED
        /\ files[s].state.stores_searched[2].status = COMPLETED

\* C6: the first persisted status is processing, and a record persisted as
\* completed or failed keeps its status, end_time and elapsed_time_ms in every
\* later step.
C6_StatusIsMonotonic ==
    [][\A s \in SearchIds :
          /\ ~Persisted(s) /\ files'[s].kind = "json" =>
                 files'[s].state.status = PROCESSING
          /\ Terminal(s) =>
                 /\ files'[s].kind = "json"
                 /\ files'[s].state.status = files[s].state.status
                 /\ files'[s].state.end_time = files[s].state.end_time
                 /\ files'[s].state.elapsed_time_ms = files[s].state.elapsed_time_ms]_vars

\* C6 witness: the record was persisted as completed and process_search went on
\* to save its metrics and return, at a later time than end_time.
C6_Witness ==
    \E s \in SearchIds :
        /\ task[s].pc = "done"
        /\ task[s].calls.save_search_metrics = 1
        /\ Persisted(s)
        /\ files[s].state.status = COMPLETED
        /\ files[s].state.end_time # <<clock>>

\* C8: a completed record has no store entry still in processing.
C8_CompletedHasOnlyTerminalStores ==
    \A s \in SearchIds :
        Persisted(s) /\ files[s].state.status = COMPLETED =>
            \A i \in 1..Len(files[s].state.stores_searched) :
                files[s].state.stores_searched[i].status \in {COMPLETED, FAILED}

\* C9: in a search of two or more stores the store searches run concurrently:
\* once the searcher has been called for one store it is called for a second
\* one too, whether or not the first call has returned.
C9_StoreSearchesRunConcurrently ==
    \A s \in SearchIds :
        (Len(task[s].stores) >= 2 /\ task[s].calls.search_store = 1)
            ~> (task[s].calls.search_store >= 2)

\* C10: a status query issued after the submission was answered never answers
\* not-found.
C10_NoNotFoundAfterSubmission ==
    \A s \in SearchIds :
        lastQuery[s].asked /\ lastQuery[s].after_response => lastQuery[s].answer.found


\* the limit dispatch applies to a request
Limit(req) == IF req.authenticated THEN AuthenticatedLimit ELSE AnonymousLimit

Reflects(call, state) ==
    CASE call.op = "update_search_status" -> state.status = call.status
      [] call.op = "update_store_status" ->
             LET k == FirstEntry(state.stores_searched, call.store)
             IN k # 0 => /\ state.stores_searched[k].status = call.status
                         /\ state.stores_searched[k].time_ms = call.time_ms
      [] call.op = "update_attributes" -> state.attributes_recognized = call.attributes
      [] OTHER -> state.result_count = call.count

\* two calls that write different parts of the record
DifferentTargets(a, b) == a.op # b.op \/ a.store # b.store

C7_BlockedUntilUnblockTime ==
    [][\A c \in Clients :
          /\ c \in DOMAIN blocked_clients /\ c \notin DOMAIN blocked_clients' =>
                 time >= blocked_clients[c]
          /\ c \in DOMAIN blocked_clients /\ c \in DOMAIN blocked_clients' =>
                 blocked_clients'[c] >= blocked_clients[c]
          /\ c \notin DOMAIN blocked_clients /\ c \in DOMAIN blocked_clients' =>
                 blocked_clients'[c] = time + block_time
          /\ \A r \in Slots :
                 /\ reqs[r].pc = "start"
                 /\ reqs'[r].pc # "start"
                 /\ reqs[r].limited
                 /\ reqs[r].client = c
                 /\ c \in DOMAIN blocked_clients
                 => IF time < blocked_clients[c]
                    THEN /\ reqs'[r].pc = "blocked"
                         /\ blocked_clients' = blocked_clients
                         /\ request_records' = request_records
                    ELSE /\ reqs'[r].pc = "check"
                         /\ c \notin DOMAIN blocked_clients']_vars

\* C7 witness: a request was denied as blocked, and the block entry of its
\* client has since been removed.
C7_Witness ==
    \E r \in Slots :
        /\ reqs[r].pc = "blocked"
        /\ reqs[r].client \notin DOMAIN blocked_clients

C12_ImageSaveFailureIsFatal ==
    \A s \in SearchIds :
        task[s].image_url = "None" =>
            /\ task[s].pc \in {"image_failed", "done"}
            /\ task[s].calls.analyze = 0
            /\ task[s].calls.search_store = 0
            /\ Persisted(s)
            /\ files[s].state.status # COMPLETED
            /\ task[s].pc = "done" => files[s].state.status = FAILED

\* C12 witness: process_search has returned after a failed image save.
C12_Witness ==
    \E s \in SearchIds :
        /\ task[s].image_url = "None"
        /\ task[s].pc = "done"
        /\ Persisted(s)
        /\ files[s].state.status = FAILED

IsStatusQuery(path) ==
    Len(path) = 3 /\ path[1] = "api" /\ path[2] = "searches"

\* C13: a status query is never checked against the limiter: it is never
\* denied, and it neither adds a timestamp nor creates a block entry.
C13_StatusQueryIsNotRateLimited ==
    \A r \in Slots :
        IsStatusQuery(reqs[r].path) => reqs[r].pc \in {"start", "forwarded"}

\* the key dispatch uses into request_records and blocked_clients
ClientKey(client_ip, is_authenticated) == client_ip

\* C14: a step of the limiter for a request of one class leaves the timestamp
\* list and the block entry of the other class of the same address unchanged.
C14_ClassesAreCountedSeparately ==
    [][\A r \in Slots :
          /\ reqs[r].limited
          /\ reqs[r].pc \in {"start", "check", "record"}
          /\ reqs'[r].pc # reqs[r].pc
          => LET other == ClientKey(reqs[r].client, ~reqs[r].authenticated)
             IN /\ request_records'[other] = request_records[other]
                /\ (other \in DOMAIN blocked_clients') = (other \in DOMAIN blocked_clients)
                /\ other \in DOMAIN blocked_clients =>
                       blocked_clients'[other] = blocked_clients[other]]_vars

\* C15: at the quota check of a request, if the client's timestamps within the
\* window are as many as its limit or more, the request is denied with
\* retry-after block_time, the block entry becomes now + block_time and no
\* timestamp is added; with fewer, the request is not denied.
C15_DeniedAtTheLimit ==
    [][\A r \in Slots :
          reqs[r].pc = "check" /\ reqs'[r].pc # "check" =>
              LET c == reqs[r].client
                  kept == Pruned(request_records[c], time - window_size)
              IN IF Len(kept) >= Limit(reqs[r])
                 THEN /\ reqs'[r].pc = "exceeded"
                      /\ reqs'[r].retry_after = BlockTime
                      /\ c \in DOMAIN blocked_clients'
                      /\ blocked_clients'[c] = time + block_time
                      /\ request_records'[c] = kept
                 ELSE /\ reqs'[r].pc = "record"
                      /\ blocked_clients' = blocked_clients]_vars

\* C15 witness: with anonymous_limit timestamps in the window, the next
\* anonymous request has just been denied.
C15_Witness ==
    \E r \in Slots :
        /\ reqs[r].pc = "exceeded"
        /\ ~reqs[r].authenticated
        /\ reqs[r].retry_after = BlockTime
        /\ reqs[r].client \in DOMAIN blocked_clients
        /\ blocked_clients[reqs[r].client] = time + block_time
        /\ Len(request_records[reqs[r].client]) = AnonymousLimit

\* C16: a request denied because its client is blocked carries retry-after
\* equal to the whole seconds from now to the unblock time, which is at most
\* block_time and greater than zero.
C16_BlockedRetryAfterIsPositive ==
    [][\A r \in Slots :
          reqs[r].pc = "start" /\ reqs'[r].pc = "blocked" =>
              /\ reqs'[r].retry_after =
                     WholeSeconds(blocked_clients[reqs[r].client] - time)
              /\ reqs'[r].retry_after <= BlockTime
              /\ reqs'[r].retry_after > 0]_vars

\* C19: validate_image accepts an upload it can read exactly when its content
\* type is image/jpeg or image/png and its size is at most 10 MiB; a wrong
\* content type gets the format message whatever the size, and a larger size
\* the size message.
C19_ValidImageIsJpegOrPngUpTo10MiB ==
    validated # <<>> =>
        LET image == Head(uploads)
            is_valid == validated[1][1]
            error_message == validated[1][2]
            type_ok == image.content_type \in {"image/jpeg", "image/png"}
        IN /\ ~type_ok =>
                  /\ ~is_valid
                  /\ error_message = "Invalid image format. Only JPEG/PNG accepted."
           /\ image.readable =>
                  /\ is_valid <=> (type_ok /\ image.size <= 10 * 1024 * 1024)
                  /\ is_valid => error_message = ""
                  /\ type_ok /\ image.size > 10 * 1024 * 1024 =>
                         error_message = "Image too large. Maximum size is 10 MB."

\* C19 witness: an upload of exactly 10 MiB has been accepted.
C19_Witness ==
    /\ validated # <<>>
    /\ validated[1][1]
    /\ Head(uploads).size = 10 * 1024 * 1024
    /\ Head(uploads).content_type = "image/png"

\* C18: a submission whose image has a wrong format or is too large is refused
\* in create_search itself, which then generates no search id, schedules no
\* process_search and creates no record; none is created afterwards either.
C18_InvalidImageIsRejectedBeforeAnyWork ==
    [][/\ (/\ uploads # <<>>
           /\ uploads' = Tail(uploads)
           /\ \/ Head(uploads).content_type \notin {"image/jpeg", "image/png"}
              \/ Head(uploads).size > 10 * 1024 * 1024)
          => /\ rejected' # ""
             /\ UNCHANGED <<files, task, response>>
       /\ rejected # "" => UNCHANGED <<files, task, response>>]_vars

\* C18 witness: a submission has been refused for its size, and there is no
\* task and no record.
C18_Witness ==
    /\ rejected = "Image too large. Maximum size is 10 MB."
    /\ uploads = <<>>
    /\ \A s \in SearchIds :
           task[s] = IdleTask /\ response[s] = NoResponse /\ files[s] = Absent

\* the fields of a record other than those listed
SameExcept(prev, got, fields) ==
    \A f \in DOMAIN prev \ fields : got[f] = prev[f]

\* C20: when one update call returns with no other call under way, a load of
\* the identifier returns the previous record with the update applied (the
\* status; the status and time of the store's entry; the attributes; the
\* result count) and every other field unchanged.
C20_UpdateThenLoadRoundTrip ==
    [][\A u \in Updaters :
          /\ upd[u].pc = "save"
          /\ upd'[u].pc = "done"
          /\ \A v \in Updaters \ {u} : upd[v].pc = "idle"
          => LET call == upd[u]
                 prev == files[UpdatedSearch].state
                 got == LoadState(files'[UpdatedSearch], "ok")
                 k == FirstEntry(prev.stores_searched, call.store)
             IN /\ got.found
                /\ DOMAIN got.state = DOMAIN prev
                /\ CASE call.op = "update_search_status" ->
                          /\ got.state.status = call.status
                          /\ SameExcept(prev, got.state,
                                        {"status", "end_time", "elapsed_time_ms"})
                     [] call.op = "update_store_status" ->
                          /\ SameExcept(prev, got.state, {"stores_searched"})
                          /\ Len(got.state.stores_searched) = Len(prev.stores_searched)
                          /\ \A i \in 1..Len(prev.stores_searched) :
                                 got.state.stores_searched[i] =
                                     IF i = k
                                     THEN [name |-> call.store, status |-> call.status,
                                           time_ms |-> call.time_ms]
                                     ELSE prev.stores_searched[i]
                     [] call.op = "update_attributes" ->
                          /\ got.state.attributes_recognized = call.attributes
                          /\ SameExcept(prev, got.state, {"attributes_recognized"})
                     [] OTHER ->
                          /\ got.state.result_count = call.count
                          /\ SameExcept(prev, got.state, {"result_count"})]_vars

\* C20 witness: one call of update_store_status has returned, no other call
\* was made, and the record holds the store's new status and time.
C20_Witness ==
    \E u \in Updaters :
        /\ upd[u].pc = "done"
        /\ upd[u].op = "update_store_status"
        /\ upd[u].time_ms = 1
        /\ \A v \in Updaters \ {u} : upd[v].pc = "idle"
        /\ Persisted(UpdatedSearch)
        /\ \E i \in 1..Len(files[UpdatedSearch].state.stores_searched) :
               files[UpdatedSearch].state.stores_searched[i] =
                   [name |-> upd[u].store, status |-> upd[u].status, time_ms |-> 1]

\* C21: a status query for an identifier that has no record answers not-found
\* and creates no record.
C21_UnknownIdIsNotFound ==
    [][\A s \in SearchIds :
          lastQuery'[s] # lastQuery[s] /\ files[s] = Absent =>
              /\ lastQuery'[s].answer = NotFound
              /\ files'[s] = Absent]_vars

\* C21 witness: a query has been answered not-found and there is no record.
C21_Witness ==
    \E s \in SearchIds :
        /\ lastQuery[s].asked
        /\ lastQuery[s].answer = NotFound
        /\ files[s] = Absent

\* C25: a status query changes no record, and for a persisted record it answers
\* the record's search_id, status, elapsed_time_ms, stores_searched,
\* attributes_recognized and result_count.
C25_StatusQueryIsAProjection ==
    [][\A s \in SearchIds :
          lastQuery'[s] # lastQuery[s] =>
              /\ files' = files
              /\ Persisted(s) =>
                     LET answer == lastQuery'[s].answer
                         state == files[s].state
                     IN /\ answer.found
                        /\ answer.search_id = state.search_id
                        /\ answer.status = state.status
                        /\ answer.elapsed_time_ms = state.elapsed_time_ms
                        /\ answer.stores_searched = state.stores_searched
                        /\ answer.attributes_recognized = state.attributes_recognized
                        /\ answer.result_count = state.result_count]_vars

\* C25 witness: a completed search with results has been queried.
C25_Witness ==
    \E s \in SearchIds :
        /\ lastQuery[s].asked
        /\ lastQuery[s].answer.found
        /\ lastQuery[s].answer.status = COMPLETED
        /\ lastQuery[s].answer.result_count > 0
        /\ Persisted(s)
        /\ files[s].state.result_count = lastQuery[s].answer.result_count

\* what a call of _save_state gives its caller: it returns None after a write
\* that worked and after one whose exception it caught and logged
SaveStateOutcome(wr) == [returned |-> "None", raised |-> FALSE]

\* C22: a write of the state file that fails is reported to the caller: what
\* the caller gets differs from what it gets after a write that worked.
C22_FailedSaveIsReported ==
    \A wr \in WriteOutcomes \ {"ok"} : SaveStateOutcome(wr) # SaveStateOutcome("ok")

\* C23: when process_search has returned after the image save, the analyzer
\* and every store search succeeded, initialize_search, the analyzer,
\* save_attributes_batch and save_search_metrics were each called once, the
\* store searcher and save_store_search once per requested store, the record
\* lists the stores in request order and its status is completed.
C23_SuccessfulRunCallsEachCollaborator ==
    \A s \in SearchIds :
        /\ task[s].pc = "done"
        /\ task[s].image_url = "ref"
        /\ task[s].analysis = "ok"
        /\ task[s].raised = {}
        => /\ task[s].calls.initialize_search = 1
           /\ task[s].calls.analyze = 1
           /\ task[s].calls.search_store = Len(task[s].stores)
           /\ task[s].calls.save_store_search = Len(task[s].stores)
           /\ task[s].calls.save_attributes_batch = 1
           /\ task[s].calls.save_search_metrics = 1
           /\ Persisted(s)
           /\ Len(files[s].state.stores_searched) = Len(task[s].stores)
           /\ \A i \in 1..Len(task[s].stores) :
                  files[s].state.stores_searched[i].name = task[s].stores[i]
           /\ files[s].state.status = COMPLETED

\* C23 witness: a run over two stores in which everything succeeded has
\* returned.
C23_Witness ==
    \E s \in SearchIds :
        /\ task[s].pc = "done"
        /\ task[s].image_url = "ref"
        /\ task[s].analysis = "ok"
        /\ task[s].raised = {}
        /\ Len(task[s].stores) = 2
        /\ task[s].calls.search_store = 2
        /\ task[s].calls.save_store_search = 2

\* C24: a store entry whose sub-status is completed or failed is never changed
\* again, and an entry recorded as failed has time_ms 0.
C24_StoreSubStatusIsFinal ==
    [][\A s \in SearchIds :
          Persisted(s) /\ files'[s].kind = "json" =>
              LET old == files[s].state.stores_searched
                  new == files'[s].state.stores_searched
              IN /\ Len(new) = Len(old)
                 /\ \A i \in 1..Len(old) :
                        /\ old[i].status \in {COMPLETED, FAILED} => new[i] = old[i]
                        /\ new[i].status = FAILED => new[i].time_ms = 0]_vars

\* C26: create_search answers 202 with the new identifier while process_search
\* is only scheduled (no step of it has run, no record exists yet), and
\* process_search takes its steps only after that.
C26_SubmissionDoesNotWaitForThePipeline ==
    [][\A s \in SearchIds :
          /\ response[s] = NoResponse /\ response'[s] # NoResponse =>
                 /\ response'[s].status_code = 202
                 /\ response'[s].status = PROCESSING
                 /\ task[s] = IdleTask
                 /\ task'[s].pc = "scheduled"
                 /\ task'[s].calls = NoCalls
                 /\ task'[s].image_url = "unset"
                 /\ task'[s].analysis = "unset"
                 /\ files' = files
          /\ task[s].pc # "idle" /\ task'[s] # task[s] => response[s] # NoResponse]_vars

\* C26 witness: the submission has been answered and process_search has not
\* started.
C26_Witness ==
    \E s \in SearchIds :
        /\ response[s].status_code = 202
        /\ task[s].pc = "scheduled"
        /\ files[s] = Absent

\* C27: a request whose path does not start with /api/searches is passed on
\* whatever the history and the block state of its client, and leaves
\* request_records and blocked_clients as they were.
C27_OtherPathsPassThrough ==
    [][\A r \in Slots :
          LET path == reqs[r].path
          IN /\ reqs[r].pc = "start"
             /\ reqs'[r].pc # "start"
             /\ ~(Len(path) >= 2 /\ path[1] = "api" /\ path[2] = "searches")
             => /\ reqs'[r].pc = "forwarded"
                /\ request_records' = request_records
                /\ blocked_clients' = blocked_clients]_vars

\* C27 witness: a request to / of a client that is blocked has been passed on.
C27_Witness ==
    \E r, q \in Slots :
        /\ reqs[r].pc = "forwarded"
        /\ reqs[r].path = <<>>
        /\ reqs[q].pc = "exceeded"
        /\ reqs[q].client = reqs[r].client
        /\ reqs[r].client \in DOMAIN blocked_clients
        /\ time < blocked_clients[reqs[r].client]

\* C28: when the analyzer returns an empty list, update_attributes writes the
\* empty list into the record and the pipeline goes on: the status is never
\* failed, and when process_search has returned every requested store has
\* been searched and the status is completed.
C28_EmptyAttributesAreNotFatal ==
    [][\A s \in SearchIds :
          /\ task[s].pc = "update_attributes" /\ task[s].attributes = <<>>
              /\ task'[s] # task[s]
              => /\ task'[s].pc = "save_attributes"
                 /\ files'[s].kind = "json"
                 /\ files'[s].state.attributes_recognized = <<>>
                 /\ files'[s].state.status = PROCESSING
          /\ task'[s].analysis # "unset" /\ task'[s].attributes = <<>>
              => /\ files'[s].kind = "json"
                 /\ files'[s].state.status # FAILED
                 /\ task'[s].pc = "done" =>
                        /\ files'[s].state.status = COMPLETED
                        /\ files'[s].state.attributes_recognized = <<>>
                        /\ task'[s].calls.search_store = Len(task'[s].stores)]_vars

\* C28 witness: the analyzer answered with an empty list, and the search has
\* completed with both of its stores searched.
C28_Witness ==
    \E s \in SearchIds :
        /\ task[s].analysis = "ok"
        /\ task[s].attributes = <<>>
        /\ task[s].pc = "done"
        /\ Len(task[s].stores) = 2
        /\ task[s].calls.search_store = 2
        /\ task[s].calls.analyze = 1
        /\ files[s].kind = "json"
        /\ files[s].state.status = COMPLETED
        /\ files[s].state.attributes_recognized = <<>>

\* C29: a record in status processing has no end_time and elapsed_time_ms 0;
\* a completed or failed record has an end_time, and its elapsed_time_ms is
\* end_time minus start_time in whole milliseconds and not negative; the
\* start_time of a record never changes.
C29_TimesFollowTheStatus ==
    [][\A s \in SearchIds :
          /\ files'[s].kind = "json" =>
                 LET st == files'[s].state
                 IN /\ st.status = PROCESSING =>
                           st.end_time = <<>> /\ st.elapsed_time_ms = 0
                    /\ st.status \in {COMPLETED, FAILED} =>
                           /\ Len(st.end_time) = 1
                           /\ st.elapsed_time_ms =
                                  (st.end_time[1] - st.start_time) \div TicksPerMs
                           /\ st.elapsed_time_ms >= 0
          /\ files[s].kind = "json" /\ files'[s].kind = "json" =>
                 files'[s].state.start_time = files[s].state.start_time]_vars

\* C29 witness: a record created at tick 0 has reached a terminal status one
\* whole millisecond later.
C29_Witness ==
    \E s \in SearchIds :
        /\ files[s].kind = "json"
        /\ files[s].state.status \in {COMPLETED, FAILED}
        /\ files[s].state.start_time = 0
        /\ files[s].state.end_time = <<TicksPerMs>>
        /\ files[s].state.elapsed_time_ms = 1

\* C30: a record keeps its search_id, and the names of its stores_searched
\* entries are the requested stores in request order from its creation on:
\* no step adds, removes, renames or reorders an entry, and
\* update_store_status for a name that has no entry leaves the list as it is.
C30_IdAndStoreListAreFixed ==
    [][\A s \in SearchIds :
          /\ files'[s].kind = "json" =>
                 LET st == files'[s].state
                     names == [i \in 1..Len(st.stores_searched) |->
                                  st.stores_searched[i].name]
                 IN /\ st.search_id = s
                    /\ names = task'[s].stores
                    /\ \A store \in StoreNames, status \in {PROCESSING, COMPLETED, FAILED},
                          time_ms \in 0..1 :
                           (\A i \in 1..Len(names) : names[i] # store) =>
                               SetStoreStatus(st, store, status, time_ms).stores_searched
                                   = st.stores_searched
          /\ files[s].kind = "json" /\ files'[s].kind = "json" =>
                 /\ files'[s].state.search_id = files[s].state.search_id
                 /\ Len(files'[s].state.stores_searched)
                        = Len(files[s].state.stores_searched)
                 /\ \A i \in 1..Len(files[s].state.stores_searched) :
                        files'[s].state.stores_searched[i].name
                            = files[s].state.stores_searched[i].name]_vars

\* C30 witness: asos and zalando were requested in this order, both have
\* been searched and updated, and the record lists them in this order.
C30_Witness ==
    \E s \in SearchIds :
        /\ task[s].pc = "done"
        /\ task[s].stores = <<"asos", "zalando">>
        /\ files[s].kind = "json"
        /\ files[s].state.search_id = s
        /\ Len(files[s].state.stores_searched) = 2
        /\ files[s].state.stores_searched[1].name = "asos"
        /\ files[s].state.stores_searched[2].name = "zalando"
        /\ files[s].state.stores_searched[1].status # PROCESSING
        /\ files[s].state.stores_searched[2].status # PROCESSING

\* C31: result_count is 0 until every entry of stores_searched is completed
\* or failed, it is written by one step of the search only, and a record in
\* status completed carries the final count.
C31_ResultCountIsWrittenOnceAndLast ==
    [][\A s \in SearchIds :
          /\ files'[s].kind = "json" =>
                 LET st == files'[s].state
                 IN /\ st.result_count # 0 =>
                           \A i \in 1..Len(st.stores_searched) :
                               st.stores_searched[i].status \in {COMPLETED, FAILED}
                    /\ st.status = COMPLETED =>
                           /\ st.result_count = task'[s].total_results
                           /\ task'[s].pc \in {"save_metrics", "done"}
          /\ files[s].kind = "json" /\ files'[s].kind = "json"
              /\ files'[s].state.result_count # files[s].state.result_count
              => /\ task[s].pc = "update_result_count"
                 /\ files[s].state.result_count = 0
                 /\ files[s].state.status = PROCESSING]_vars

\* C32: when _check_rate_limit has run for a client at time now, the
\* client's list holds exactly the timestamps it held before that are newer
\* than now - window_size, each as often as before, in non-decreasing order;
\* and no step of the limiter drops a timestamp of any client that is newer
\* than now - window_size.
C32_ListIsPrunedToTheWindow ==
    [][/\ \A r \in Slots :
             reqs[r].pc = "check" /\ reqs'[r].pc # "check" =>
                 LET old == request_records[reqs[r].client]
                     new == request_records'[reqs[r].client]
                     window_start == time - WindowSize * TicksPerSecond
                 IN /\ \A i \in 1..Len(new) : new[i] > window_start
                    /\ \A i, j \in 1..Len(new) : i < j => new[i] <= new[j]
                    /\ \A v \in 0..MaxTime :
                           Cardinality({i \in 1..Len(new) : new[i] = v})
                               = IF v > window_start
                                 THEN Cardinality({i \in 1..Len(old) : old[i] = v})
                                 ELSE 0
       /\ \A c \in Clients, v \in 0..MaxTime :
             v > time - WindowSize * TicksPerSecond =>
                 Cardinality({i \in 1..Len(request_records'[c]) : request_records'[c][i] = v})
                     >= Cardinality({i \in 1..Len(request_records[c]) : request_records[c][i] = v})]_vars

\* C32 witness: a quota check has just accepted a request of a client whose
\* list holds one timestamp inside the window, at a time when timestamps
\* older than the window can exist.
C32_Witness ==
    \E r \in Slots :
        /\ reqs[r].pc = "record"
        /\ reqs[r].authenticated
        /\ time > WindowSize * TicksPerSecond
        /\ Len(request_records[reqs[r].client]) = 1
        /\ request_records[reqs[r].client][1] > time - WindowSize * TicksPerSecond
        /\ request_records[reqs[r].client][1] < time

\* C33: initialize_search for an identifier that has a record replaces it:
\* when the call returns, the record is the initial record for the given
\* store list, whatever the record held before.
C33_InitializeOverwrites ==
    [][\A s \in SearchIds :
          /\ task'[s].calls.initialize_search = task[s].calls.initialize_search + 1
          /\ files[s].kind = "json"
          => /\ files'[s].kind = "json"
             /\ files'[s].state =
                    [search_id |-> s,
                     status |-> PROCESSING,
                     start_time |-> clock,
                     end_time |-> <<>>,
                     elapsed_time_ms |-> 0,
                     stores_searched |->
                         [i \in 1..Len(task'[s].stores) |->
                             [name |-> task'[s].stores[i], status |-> PROCESSING,
                              time_ms |-> 0]],
                     attributes_recognized |-> <<>>,
                     result_count |-> 0]]_vars

\* C33 witness: initialize_search was called at tick 2 for asos alone, after
\* an update of the record made at creation had returned, and the record is
\* the initial one again.
C33_Witness ==
    \E u \in Updaters :
        /\ upd[u].pc = "done"
        /\ upd[u].op = "update_search_status"
        /\ task[UpdatedSearch].calls.initialize_search = 1
        /\ files[UpdatedSearch].kind = "json"
        /\ files[UpdatedSearch].state.start_time = 2
        /\ files[UpdatedSearch].state.status = PROCESSING
        /\ files[UpdatedSearch].state.end_time = <<>>
        /\ Len(files[UpdatedSearch].state.stores_searched) = 1
        /\ files[UpdatedSearch].state.stores_searched[1].name = "asos"

\* C37: an update_* call for an identifier that has no record returns without
\* writing anything: no record appears unless initialize_search is called,
\* and a status query made while there is none answers not-found.
C37_UpdateWithoutRecordIsNoOp ==
    [][/\ \A u \in Updaters :
             upd[u].pc = "load" /\ upd'[u].pc # "load" /\ files[UpdatedSearch] = Absent =>
                 /\ upd'[u].pc = "done"
                 /\ upd'[u].state = <<>>
                 /\ files' = files
       /\ \A s \in SearchIds :
             /\ files[s] = Absent /\ files'[s] # Absent =>
                    task'[s].calls.initialize_search = task[s].calls.initialize_search + 1
             /\ files[s] = Absent /\ lastQuery'[s] # lastQuery[s] =>
                    lastQuery'[s].answer = NotFound]_vars

\* C37 witness: two update calls of different methods have returned, there
\* is still no record, and a status query has been answered not-found.
C37_Witness ==
    /\ files[UpdatedSearch] = Absent
    /\ task[UpdatedSearch].calls.initialize_search = 0
    /\ upd["u1"].pc = "done"
    /\ upd["u2"].pc = "done"
    /\ upd["u1"].op = "update_store_status"
    /\ upd["u2"].op = "update_result_count"
    /\ lastQuery[UpdatedSearch].asked
    /\ lastQuery[UpdatedSearch].answer = NotFound

\* C34: a step of one search leaves the record and the task of every other
\* search as they are, however the steps of the searches interleave; and
\* an update_store_status of process_search changes the status and time_ms of
\* the first entry of that store only: the other entries, the names, the
\* status, the times, the attributes and result_count stay.
C34_SearchesAreIndependent ==
    [][\A s \in DOMAIN task :
          /\ task'[s] # task[s] =>
                 \A o \in DOMAIN task \ {s} : files'[o] = files[o] /\ task'[o] = task[o]
          /\ task[s].pc \in {"store_processing", "store_completed", "store_failed"}
              /\ task'[s].pc # task[s].pc
              => LET old == files[s].state
                     new == files'[s].state
                     store == task[s].stores[task[s].idx]
                 IN /\ files[s].kind = "json" /\ files'[s].kind = "json"
                    /\ \A f \in DOMAIN old \ {"stores_searched"} : new[f] = old[f]
                    /\ Len(new.stores_searched) = Len(old.stores_searched)
                    /\ \A i \in 1..Len(old.stores_searched) :
                           /\ new.stores_searched[i].name = old.stores_searched[i].name
                           /\ new.stores_searched[i] # old.stores_searched[i] =>
                                  /\ old.stores_searched[i].name = store
                                  /\ \A j \in 1..(i - 1) :
                                         old.stores_searched[j].name # store]_vars

\* C34 witness: both searches are waiting for the store searcher, the first
\* one for its second store, and their records differ.
C34_Witness ==
    /\ DOMAIN task = {"s1", "s2"}
    /\ task["s1"].pc = "search_wait"
    /\ task["s2"].pc = "search_wait"
    /\ task["s1"].idx = 2
    /\ task["s2"].idx = 1
    /\ files["s1"].kind = "json"
    /\ files["s2"].kind = "json"
    /\ files["s1"].state.stores_searched[1].status = COMPLETED
    /\ files["s2"].state.stores_searched[1].status = PROCESSING
    /\ files["s1"].state.start_time # files["s2"].state.start_time

\* C35: a request denied because its client is blocked changes neither the
\* timestamp lists nor the block entries, and no request that is denied, for
\* a block or for the quota, adds a timestamp to any list.
C35_DeniedRequestsRecordNothing ==
    [][\A r \in Slots :
          /\ reqs[r].pc = "start" /\ reqs'[r].pc = "blocked" =>
                 /\ request_records' = request_records
                 /\ blocked_clients' = blocked_clients
          /\ reqs'[r].pc \in {"blocked", "exceeded"} /\ reqs'[r].pc # reqs[r].pc =>
                 \A c \in Clients, v \in 0..MaxTime :
                     Cardinality({i \in 1..Len(request_records'[c]) :
                                     request_records'[c][i] = v})
                         <= Cardinality({i \in 1..Len(request_records[c]) :
                                            request_records[c][i] = v})]_vars

\* C35 witness: a request has been denied one tick after the block of its
\* client began; the block still ends when it was set to end and the client's
\* list holds the one request that was accepted.
C35_Witness ==
    \E r \in Slots :
        /\ reqs[r].pc = "blocked"
        /\ ~reqs[r].authenticated
        /\ reqs[r].client \in DOMAIN blocked_clients
        /\ time < blocked_clients[reqs[r].client]
        /\ blocked_clients[reqs[r].client] < time + BlockTime * TicksPerSecond
        /\ Len(request_records[reqs[r].client]) = 1

C38_FailedByImageKeepsStoresProcessing ==
    \A s \in SearchIds :
        task[s].image_url = "None" /\ task[s].pc = "done" =>
            /\ files[s].kind = "json"
            /\ files[s].state.status = FAILED
            /\ files[s].state.stores_searched =
                   [i \in 1..Len(task[s].stores) |->
                       [name |-> task[s].stores[i], status |-> PROCESSING, time_ms |-> 0]]
            /\ files[s].state.attributes_recognized = <<>>
            /\ files[s].state.result_count = 0

\* C38 witness: a search of two stores has failed on its image, and both
\* store entries of the failed record are in processing.
C38_Witness ==
    \E s \in SearchIds :
        /\ task[s].image_url = "None"
        /\ task[s].pc = "done"
        /\ files[s].kind = "json"
        /\ files[s].state.status = FAILED
        /\ Len(files[s].state.stores_searched) = 2
        /\ files[s].state.stores_searched[1].status = PROCESSING
        /\ files[s].state.stores_searched[2].status = PROCESSING

\* C39: a step of the limiter for a request of one client key (an address
\* and a class) leaves the timestamp list and the block entry of every other
\* client key as they are.
C39_ClientKeysAreIsolated ==
    [][\A r \in Slots :
          /\ reqs[r].limited
          /\ reqs[r].pc \in {"start", "check", "record"}
          /\ reqs'[r].pc # reqs[r].pc
          => \A c \in Clients, a \in BOOLEAN :
                 <<c, a>> # <<reqs[r].client, reqs[r].authenticated>> =>
                     LET key == ClientKey(c, a)
                     IN /\ request_records'[key] = request_records[key]
                        /\ (key \in DOMAIN blocked_clients')
                               = (key \in DOMAIN blocked_clients)
                        /\ key \in DOMAIN blocked_clients =>
                               blocked_clients'[key] = blocked_clients[key]]_vars

\* C40: a step of process_search whose save fails leaves the record that was
\* persisted before it loadable: a record that can be loaded before a step
\* of the search can be loaded after it, updated or as it was.
C40_FailedSaveKeepsTheRecord ==
    [][\A s \in SearchIds :
          /\ files[s].kind = "json"
          /\ task'[s] # task[s]
          => /\ files'[s].kind = "json"
             /\ LoadState(files'[s], "ok").found]_vars
====
